---- MODULE Spec2Model ----
(***************************************************************************)
(* Model of prune_alexnet.py: the mode dispatch of __main__ (lines         *)
(* 183-242), the training loop of train() and the adaptive pruning         *)
(* scheduler (lines 186-240).  The Pruner, the Evaluator and the training  *)
(* of an epoch are external calls; each is a step that returns a value     *)
(* drawn from a small set or raises.                                       *)
(***************************************************************************)
EXTENDS Integers, Sequences, FiniteSets, TLC

\* ---- bounds of the model ----
MaxW == 2
MaxBatch == 2
MaxGain == 1
MaxAcc == 1
MaxConvFilters == 21
MaxLinearFilters == 24
\* cap on the loop passes explored; a run of the program stays below it
MaxPasses == 40
MaxEpochs == 2
MaxRecoveryEpochs == 2
MaxValSamples == 3

\* accuracy gains returned by the Pruner, accuracies returned by eval/train
Gains == 0..MaxGain
\* accuracies are counted in units of 0.00001
Accs == {7 * a : a \in 0..MaxAcc}
\* what prunner.book reports: filters and modules of each layer class
Book(cf, cm, lf, lm) == [conv2d_filters |-> cf, conv2d_modules |-> cm,
                         linear_filters |-> lf, linear_modules |-> lm]
\* a network with nothing to prune, and two small networks
ShortBooks == {Book(2, 1, 2, 1), Book(4, 1, 6, 1), Book(7, 2, 8, 1)}
\* a network that takes more than 30 passes to prune one unit at a time
LongBooks == {Book(MaxConvFilters, 5, MaxLinearFilters, 2)}
\* the runs explored: every window with the small networks, the shortest
\* window that has an adaptive phase with the large one
LongWindows == {1}
Runs ==
  ((0..MaxW) \X (1..MaxBatch) \X (1..MaxBatch) \X ShortBooks)
    \cup (LongWindows \X (1..MaxBatch) \X (1..MaxBatch) \X LongBooks)
\* the runs explored with other recovery epoch counts than the default
RecoveryRuns == {r \in Runs : r[4] = Book(4, 1, 6, 1) /\ r[2] = 1 /\ r[3] = 1}
\* the run parameters of a launch that does not prune
DefaultRun == <<1, 1, 1, Book(2, 1, 2, 1)>>
\* sizes of the validation dataset
ValSamples == {0, MaxValSamples}
\* a launch: the flags, the run parameters, the validation dataset size,
\* --num_epochs and --num_recovery_epochs
Config(t, p, r, v, ne, nr) ==
  [train |-> t, prune |-> p, run |-> r, val_samples |-> v,
   num_epochs |-> ne, num_recovery_epochs |-> nr]
PruneConfigs ==
  {Config(FALSE, TRUE, r, v, 1, 1) : r \in Runs, v \in ValSamples}
    \cup {Config(FALSE, TRUE, r, MaxValSamples, 1, nr) :
             r \in RecoveryRuns, nr \in 0..MaxRecoveryEpochs}
TrainConfigs ==
  {Config(TRUE, p, DefaultRun, v, ne, 1) :
     p \in BOOLEAN, v \in ValSamples, ne \in 0..MaxEpochs}
FatalConfigs == {Config(FALSE, FALSE, DefaultRun, v, 1, 1) : v \in ValSamples}
Configs == PruneConfigs \cup TrainConfigs \cup FatalConfigs

VARIABLES
  args_train,             \* args.train
  args_prune,             \* args.prune
  num_epochs,             \* args.num_epochs
  num_recovery_epochs,    \* args.num_recovery_epochs
  val_samples,            \* len(val_dataset)
  window,                 \* args.window
  prune_conv_num,         \* args.prune_conv_num
  prune_linear_num,       \* args.prune_linear_num
  num_of_conv2d_filters,  \* prunner.book.num_of_conv2d_filters()
  num_of_linear_filters,  \* prunner.book.num_of_linear_filters()
  num_of_conv2d_modules,  \* prunner.book.num_of_conv2d_modules()
  num_of_linear_modules,  \* prunner.book.num_of_linear_modules()
  prune_num,              \* the prune budget
  conv_scores,            \* list of accuracy gains of conv prunes
  linear_scores,          \* list of accuracy gains of linear prunes
  i,                      \* filters pruned so far
  iteration,              \* loop pass index
  conv_score,             \* sum(conv_scores) taken by the last adaptive pass
  linear_score,           \* sum(linear_scores) taken by the last adaptive pass
  accuracy_gain,          \* gain returned by the last Pruner call
  val_accuracy,           \* accuracy returned by the last eval/train call
  train_result,           \* accuracy returned by the last train() call
  conv_requested,         \* units passed to prunner.prune_conv_layers so far
  linear_requested,       \* units passed to prunner.prune_linear_layers so far
  pruned,                 \* Pruner operation called in the current pass
  saved,                  \* pruning checkpoints written, in order
  epoch,                  \* epoch index of train() in train mode
  epoch_files,            \* per-epoch checkpoints written by train(), in order
  loaded,                 \* args.trained_model has been loaded into the net
  fatal_logged,           \* logging.fatal has been called
  error,                  \* the exception that ended the run, or "none"
  pc                      \* position of the run

vars == <<args_train, args_prune, num_epochs, num_recovery_epochs, val_samples,
          window, prune_conv_num, prune_linear_num, num_of_conv2d_filters,
          num_of_linear_filters, num_of_conv2d_modules, num_of_linear_modules,
          prune_num, conv_scores, linear_scores, conv_score, linear_score, i,
          iteration, accuracy_gain, val_accuracy, train_result, conv_requested,
          linear_requested, pruned, saved, epoch, epoch_files, loaded,
          fatal_logged, error, pc>>

args == <<window, prune_conv_num, prune_linear_num>>
book == <<num_of_conv2d_filters, num_of_linear_filters,
          num_of_conv2d_modules, num_of_linear_modules>>
pruner == <<conv_requested, linear_requested>>
scores == <<conv_score, linear_score>>
launch == <<args_train, args_prune, num_epochs, num_recovery_epochs, val_samples>>
trainer == <<epoch, epoch_files>>
\* what a launch fixes
given == <<launch, args, book>>
\* the pruning loop's own state
windows == <<conv_scores, linear_scores>>

\* ---- pure helpers ----
RECURSIVE sum(_)
sum(s) == IF s = <<>> THEN 0 ELSE Head(s) + sum(Tail(s))

\* prune_num of lines 197-198
PruneNum(cf, lf, cm, lm) == cf + lf - 2 * (cm + lm)

\* the loop test off by one: one more pass when i = prune_num
LoopCondLe(n, budget) == n <= budget

\* `while i < prune_num` (line 204)
LoopCond(n, budget) == n < budget

\* conv warm-up one pass short
ConvWarmupShort(cs, w) == Len(cs) < w - 1

\* `len(conv_scores) < args.window` (line 206)
ConvWarmup(cs, w) == Len(cs) < w

\* linear warm-up one pass short
LinearWarmupShort(ls, w) == Len(ls) < w - 1

\* `len(linear_scores) < args.window` (line 211)
LinearWarmup(ls, w) == Len(ls) < w

\* ties go to conv
PickConvGe(c, l) == c >= l

\* `conv_score > linear_score` (line 218)
PickConv(c, l) == c > l

\* the counter is not advanced
AdvanceNone(n, k) == n

\* `i += args.prune_conv_num`, `i += args.prune_linear_num` (lines 210, 214, 223, 229)
Advance(n, k) == n + k

\* the increment sits inside the `if iteration % 30 == 0` block
NextIterationInIf(it) == IF it % 30 = 0 THEN it + 1 ELSE it

\* `iteration += 1` (line 240)
NextIteration(it) == it + 1

\* the eviction is missing
Pop0None(s) == s

\* list.pop() in place of list.pop(0): the newest entry is evicted
PopLast(s) == SubSeq(s, 1, Len(s) - 1)

\* list.pop(0) on a non-empty list (lines 221, 227)
Pop0(s) == Tail(s)

\* the window is started again with the new gain
PushFullReset(s, g) == <<g>>

\* list.pop(0) followed by list.append(g) (lines 221-222, 227-228)
PushFull(s, g) == Append(Pop0(s), g)

\* the test is made on the already incremented index
SaveDueAfter(it) == (it + 1) % 30 = 0

\* only the first pass saves
SaveDueOnce(it) == it = 0

\* `iteration % 30 == 0` (line 235)
SaveEvery == 30
SaveDue(it) == it % SaveEvery = 0

\* '{:.4f}'.format(a): the number of 0.0001 units printed
Fmt4(a) == (a + 5) \div 10

\* pruning is what runs without --train
ModePruneDefault(t, p) == IF t THEN "train" ELSE "prune"

\* --prune is tested first
ModePruneFirst(t, p) == IF p THEN "prune" ELSE IF t THEN "train" ELSE "fatal"

\* the if/elif/else of lines 183-242
Mode(t, p) == IF t THEN "train" ELSE IF p THEN "prune" ELSE "fatal"

\* the divisions by num of eval (lines 136-137)
EvalOutcome(n) == IF n = 0 THEN "ZeroDivisionError" ELSE "ok"

\* `return val_loss, val_accuracy` of train (line 116): the names are bound
\* by the epoch loop only
TrainOutcome(n) == IF n = 0 THEN "UnboundLocalError" ELSE "ok"

\* save_model of train (line 83) when the caller does not pass it
SaveModelDefault == TRUE

\* the recovery call leaves save_model at its default
RecoverySaveModelOmitted == TRUE

\* save_model as passed by the recovery call (line 233)
RecoverySaveModel == FALSE

\* `if save_model: torch.save(...)` of an epoch of train (lines 114-115)
SaveEpoch(files, e, acc, save_model) ==
  IF save_model THEN Append(files, [epoch |-> e, accuracy4 |-> Fmt4(acc)])
               ELSE files

\* the files after the epochs 0..Len(accs)-1 of one train() call (lines 91-115)
RECURSIVE TrainFiles(_, _, _)
TrainFiles(files, accs, save_model) ==
  IF accs = <<>> THEN files
  ELSE SaveEpoch(TrainFiles(files, SubSeq(accs, 1, Len(accs) - 1), save_model),
                 Len(accs) - 1, accs[Len(accs)], save_model)

\* the checkpoint of a pass (lines 237-239): the architecture text file and
\* the weights file, named by their format arguments
Checkpoint(it, n, budget, acc) ==
  [iteration |-> it, txt |-> n, pth |-> <<n, budget, Fmt4(acc)>>]

\* ---- the run ----
\* the exception is caught and the failed call is made again
RaiseRetried(e) == pc' = pc /\ error' = e

\* an exception leaves the run: nothing is caught in the script
Raise(e) == pc' = "crashed" /\ error' = e

Init ==
  /\ \E c \in Configs :
       /\ args_train = c.train
       /\ args_prune = c.prune
       /\ num_epochs = c.num_epochs
       /\ num_recovery_epochs = c.num_recovery_epochs
       /\ val_samples = c.val_samples
       /\ window = c.run[1]
       /\ prune_conv_num = c.run[2]
       /\ prune_linear_num = c.run[3]
       /\ num_of_conv2d_filters = c.run[4].conv2d_filters
       /\ num_of_conv2d_modules = c.run[4].conv2d_modules
       /\ num_of_linear_filters = c.run[4].linear_filters
       /\ num_of_linear_modules = c.run[4].linear_modules
  /\ prune_num = 0
  /\ conv_scores = <<>>
  /\ linear_scores = <<>>
  /\ conv_score = 0
  /\ linear_score = 0
  /\ i = 0
  /\ iteration = 0
  /\ accuracy_gain = 0
  /\ val_accuracy = 0
  /\ train_result = 0
  /\ conv_requested = 0
  /\ linear_requested = 0
  /\ pruned = "none"
  /\ saved = <<>>
  /\ epoch = 0
  /\ epoch_files = <<>>
  /\ loaded = FALSE
  /\ fatal_logged = FALSE
  /\ error = "none"
  /\ pc = "start"

\* lines 183-185: train mode is entered
StartTrain ==
  /\ pc = "start"
  /\ Mode(args_train, args_prune) = "train"
  /\ pc' = "train"
  /\ UNCHANGED <<given, prune_num, windows, scores, i, iteration, accuracy_gain,
                 val_accuracy, train_result, pruner, pruned, saved, trainer,
                 loaded, fatal_logged, error>>

\* lines 91-115: one epoch of train() in train mode
TrainEpoch ==
  /\ pc = "train"
  /\ epoch < num_epochs
  /\ \/ /\ EvalOutcome(val_samples) = "ok"
        /\ \E a \in Accs :
             /\ val_accuracy' = a
             /\ epoch_files' = SaveEpoch(epoch_files, epoch, a, SaveModelDefault)
        /\ epoch' = epoch + 1
        /\ UNCHANGED <<pc, error>>
     \/ /\ EvalOutcome(val_samples) # "ok"
        /\ Raise(EvalOutcome(val_samples))
        /\ UNCHANGED <<val_accuracy, trainer>>
     \/ /\ Raise("Trainer")
        /\ UNCHANGED <<val_accuracy, trainer>>
  /\ UNCHANGED <<given, prune_num, windows, scores, i, iteration, accuracy_gain,
                 train_result, pruner, pruned, saved, loaded, fatal_logged>>

\* line 116: train() returns and the script ends
TrainReturn ==
  /\ pc = "train"
  /\ ~(epoch < num_epochs)
  /\ IF TrainOutcome(num_epochs) = "ok"
       THEN pc' = "done" /\ train_result' = val_accuracy /\ error' = error
       ELSE Raise(TrainOutcome(num_epochs)) /\ train_result' = train_result
  /\ UNCHANGED <<given, prune_num, windows, scores, i, iteration, accuracy_gain,
                 val_accuracy, pruner, pruned, saved, trainer, loaded,
                 fatal_logged>>

\* lines 186-203: prune mode is entered, the trained model is loaded
StartPrune ==
  /\ pc = "start"
  /\ Mode(args_train, args_prune) = "prune"
  /\ \/ /\ loaded' = TRUE
        /\ prune_num' = PruneNum(num_of_conv2d_filters, num_of_linear_filters,
                                 num_of_conv2d_modules, num_of_linear_modules)
        /\ pc' = "loop"
        /\ error' = error
     \/ /\ Raise("Load")
        /\ UNCHANGED <<loaded, prune_num>>
  /\ UNCHANGED <<given, windows, scores, i, iteration, accuracy_gain,
                 val_accuracy, train_result, pruner, pruned, saved, trainer,
                 fatal_logged>>

\* lines 241-242: neither mode is selected
Fatal ==
  /\ pc = "start"
  /\ Mode(args_train, args_prune) = "fatal"
  /\ fatal_logged' = TRUE
  /\ pc' = "done"
  /\ UNCHANGED <<given, prune_num, windows, scores, i, iteration, accuracy_gain,
                 val_accuracy, train_result, pruner, pruned, saved, trainer,
                 loaded, error>>

\* lines 204-210: conv warm-up
PruneConvWarmup ==
  /\ pc = "loop"
  /\ iteration < MaxPasses
  /\ LoopCond(i, prune_num)
  /\ ConvWarmup(conv_scores, window)
  /\ conv_requested' = conv_requested + prune_conv_num
  /\ pruned' = "conv"
  /\ \/ /\ \E g \in Gains :
             /\ accuracy_gain' = g
             /\ conv_scores' = Append(conv_scores, g)
        /\ i' = Advance(i, prune_conv_num)
        /\ pc' = "eval"
        /\ error' = error
     \/ /\ Raise("Pruner")
        /\ UNCHANGED <<accuracy_gain, conv_scores, i>>
  /\ UNCHANGED <<given, prune_num, linear_scores, scores, iteration,
                 val_accuracy, train_result, linear_requested, saved, trainer,
                 loaded, fatal_logged>>

\* lines 204, 211-214: linear warm-up
PruneLinearWarmup ==
  /\ pc = "loop"
  /\ iteration < MaxPasses
  /\ LoopCond(i, prune_num)
  /\ ~ConvWarmup(conv_scores, window)
  /\ LinearWarmup(linear_scores, window)
  /\ linear_requested' = linear_requested + prune_linear_num
  /\ pruned' = "linear"
  /\ \/ /\ \E g \in Gains :
             /\ accuracy_gain' = g
             /\ linear_scores' = Append(linear_scores, g)
        /\ i' = Advance(i, prune_linear_num)
        /\ pc' = "eval"
        /\ error' = error
     \/ /\ Raise("Pruner")
        /\ UNCHANGED <<accuracy_gain, linear_scores, i>>
  /\ UNCHANGED <<given, prune_num, conv_scores, scores, iteration,
                 val_accuracy, train_result, conv_requested, saved, trainer,
                 loaded, fatal_logged>>

\* lines 204, 215-223: adaptive pass, conv has the greater windowed gain
PruneConvAdaptive ==
  /\ pc = "loop"
  /\ iteration < MaxPasses
  /\ LoopCond(i, prune_num)
  /\ ~ConvWarmup(conv_scores, window)
  /\ ~LinearWarmup(linear_scores, window)
  /\ conv_score' = sum(conv_scores)
  /\ linear_score' = sum(linear_scores)
  /\ PickConv(conv_score', linear_score')
  /\ conv_requested' = conv_requested + prune_conv_num
  /\ pruned' = "conv"
  /\ \/ \E g \in Gains :
          /\ accuracy_gain' = g
          /\ IF conv_scores = <<>>
               THEN \* pop from empty list raises IndexError
                    /\ Raise("IndexError")
                    /\ UNCHANGED <<conv_scores, i>>
               ELSE /\ conv_scores' = PushFull(conv_scores, g)
                    /\ i' = Advance(i, prune_conv_num)
                    /\ pc' = "eval"
                    /\ error' = error
     \/ /\ Raise("Pruner")
        /\ UNCHANGED <<accuracy_gain, conv_scores, i>>
  /\ UNCHANGED <<given, prune_num, linear_scores, iteration, val_accuracy,
                 train_result, linear_requested, saved, trainer, loaded,
                 fatal_logged>>

\* lines 204, 215-217, 224-229: adaptive pass, otherwise
PruneLinearAdaptive ==
  /\ pc = "loop"
  /\ iteration < MaxPasses
  /\ LoopCond(i, prune_num)
  /\ ~ConvWarmup(conv_scores, window)
  /\ ~LinearWarmup(linear_scores, window)
  /\ conv_score' = sum(conv_scores)
  /\ linear_score' = sum(linear_scores)
  /\ ~PickConv(conv_score', linear_score')
  /\ linear_requested' = linear_requested + prune_linear_num
  /\ pruned' = "linear"
  /\ \/ \E g \in Gains :
          /\ accuracy_gain' = g
          /\ IF linear_scores = <<>>
               THEN \* pop from empty list raises IndexError
                    /\ Raise("IndexError")
                    /\ UNCHANGED <<linear_scores, i>>
               ELSE /\ linear_scores' = PushFull(linear_scores, g)
                    /\ i' = Advance(i, prune_linear_num)
                    /\ pc' = "eval"
                    /\ error' = error
     \/ /\ Raise("Pruner")
        /\ UNCHANGED <<accuracy_gain, linear_scores, i>>
  /\ UNCHANGED <<given, prune_num, conv_scores, iteration, val_accuracy,
                 train_result, conv_requested, saved, trainer, loaded,
                 fatal_logged>>

\* the evaluation result replaces the gain just pushed
EvaluateFeedsWindow ==
  /\ pc = "eval"
  /\ \/ /\ EvalOutcome(val_samples) = "ok"
        /\ val_accuracy' \in Accs
        /\ conv_scores' = IF pruned = "conv"
                            THEN [conv_scores EXCEPT ![Len(conv_scores)] = val_accuracy']
                            ELSE conv_scores
        /\ linear_scores' = IF pruned = "linear"
                              THEN [linear_scores EXCEPT ![Len(linear_scores)] = val_accuracy']
                              ELSE linear_scores
        /\ pc' = "recover"
        /\ error' = error
     \/ /\ EvalOutcome(val_samples) # "ok"
        /\ Raise(EvalOutcome(val_samples))
        /\ UNCHANGED <<val_accuracy, windows>>
     \/ /\ Raise("Evaluator")
        /\ UNCHANGED <<val_accuracy, windows>>
  /\ UNCHANGED <<given, prune_num, scores, i, iteration, accuracy_gain,
                 train_result, pruner, pruned, saved, trainer, loaded,
                 fatal_logged>>

\* line 231: evaluation of the pruned model
Evaluate ==
  /\ pc = "eval"
  /\ \/ /\ EvalOutcome(val_samples) = "ok"
        /\ val_accuracy' \in Accs
        /\ pc' = "recover"
        /\ error' = error
     \/ /\ EvalOutcome(val_samples) # "ok"
        /\ Raise(EvalOutcome(val_samples))
        /\ UNCHANGED val_accuracy
     \/ /\ Raise("Evaluator")
        /\ UNCHANGED val_accuracy
  /\ UNCHANGED <<given, prune_num, windows, scores, i, iteration, accuracy_gain,
                 train_result, pruner, pruned, saved, trainer, loaded,
                 fatal_logged>>

\* the accuracy returned by the recovery training is not assigned
RecoverDiscarded ==
  /\ pc = "recover"
  /\ \/ /\ TrainOutcome(num_recovery_epochs) = "ok"
        /\ EvalOutcome(val_samples) = "ok"
        /\ \E accs \in [1..num_recovery_epochs -> Accs] :
             /\ epoch_files' = TrainFiles(epoch_files, accs, RecoverySaveModel)
             /\ train_result' = accs[num_recovery_epochs]
        /\ val_accuracy' = val_accuracy
        /\ pc' = "save"
        /\ error' = error
     \/ /\ Raise("Trainer")
        /\ UNCHANGED <<val_accuracy, train_result, epoch_files>>
  /\ UNCHANGED <<given, prune_num, windows, scores, i, iteration, accuracy_gain,
                 pruner, pruned, saved, epoch, loaded, fatal_logged>>

\* line 233: recovery training, train(..., args.num_recovery_epochs, ...,
\* save_model=False)
Recover ==
  /\ pc = "recover"
  /\ \/ /\ TrainOutcome(num_recovery_epochs) = "ok"
        /\ EvalOutcome(val_samples) = "ok"
        /\ \E accs \in [1..num_recovery_epochs -> Accs] :
             /\ epoch_files' = TrainFiles(epoch_files, accs, RecoverySaveModel)
             /\ train_result' = accs[num_recovery_epochs]
        /\ val_accuracy' = train_result'
        /\ pc' = "save"
        /\ error' = error
     \/ /\ TrainOutcome(num_recovery_epochs) # "ok"
        /\ Raise(TrainOutcome(num_recovery_epochs))
        /\ UNCHANGED <<val_accuracy, train_result, epoch_files>>
     \/ /\ TrainOutcome(num_recovery_epochs) = "ok"
        /\ EvalOutcome(val_samples) # "ok"
        /\ Raise(EvalOutcome(val_samples))
        /\ UNCHANGED <<val_accuracy, train_result, epoch_files>>
     \/ /\ Raise("Trainer")
        /\ UNCHANGED <<val_accuracy, train_result, epoch_files>>
  /\ UNCHANGED <<given, prune_num, windows, scores, i, iteration, accuracy_gain,
                 pruner, pruned, saved, epoch, loaded, fatal_logged>>

\* iteration += 1 first, then the periodic checkpoint
CountAndSave ==
  /\ pc = "save"
  /\ iteration' = NextIteration(iteration)
  /\ saved' = IF SaveDue(iteration')
                THEN Append(saved, Checkpoint(iteration', i, prune_num, val_accuracy))
                ELSE saved
  /\ pc' = "loop"
  /\ UNCHANGED <<given, prune_num, windows, scores, i, accuracy_gain,
                 val_accuracy, train_result, pruner, pruned, trainer, loaded,
                 fatal_logged, error>>

\* lines 235-240: periodic checkpoint, then iteration += 1
SaveAndCount ==
  /\ pc = "save"
  /\ saved' = IF SaveDue(iteration)
                THEN Append(saved, Checkpoint(iteration, i, prune_num, val_accuracy))
                ELSE saved
  /\ iteration' = NextIteration(iteration)
  /\ pc' = "loop"
  /\ UNCHANGED <<given, prune_num, windows, scores, i, accuracy_gain,
                 val_accuracy, train_result, pruner, pruned, trainer, loaded,
                 fatal_logged, error>>

\* line 204: the loop condition fails
LoopExit ==
  /\ pc = "loop"
  /\ ~LoopCond(i, prune_num)
  /\ pc' = "done"
  /\ UNCHANGED <<given, prune_num, windows, scores, i, iteration, accuracy_gain,
                 val_accuracy, train_result, pruner, pruned, saved, trainer,
                 loaded, fatal_logged, error>>

Next ==
  \/ StartTrain
  \/ TrainEpoch
  \/ TrainReturn
  \/ StartPrune
  \/ Fatal
  \/ PruneConvWarmup
  \/ PruneLinearWarmup
  \/ PruneConvAdaptive
  \/ PruneLinearAdaptive
  \/ Evaluate
  \/ Recover
  \/ SaveAndCount
  \/ LoopExit

Spec == Init /\ [][Next]_vars

\* every external call returns or raises, and the interpreter keeps running
FairSpec == Spec /\ WF_vars(Next)

TypeOK ==
  /\ window \in 0..MaxW
  /\ pc \in {"start", "train", "loop", "eval", "recover", "save", "done", "crashed"}
  /\ pruned \in {"none", "conv", "linear"}
  /\ i \in Nat /\ iteration \in Nat
  /\ (error = "none") = (pc # "crashed")

\* ---- the pass in progress ----
\* a pass starts: the loop test holds at the head of the loop
PassStarts == pc = "loop" /\ i < prune_num
\* the step is a call of prunner.prune_conv_layers(args.prune_conv_num) only
CallsConv ==
  /\ conv_requested' = conv_requested + prune_conv_num
  /\ linear_requested' = linear_requested
  /\ pruned' = "conv"
\* the step is a call of prunner.prune_linear_layers(args.prune_linear_num) only
CallsLinear ==
  /\ linear_requested' = linear_requested + prune_linear_num
  /\ conv_requested' = conv_requested
  /\ pruned' = "linear"
\* w2 is w1 with g added at the end and nothing removed
IsAppend(w1, w2, g) ==
  /\ Len(w2) = Len(w1) + 1
  /\ \A k \in 1..Len(w1) : w2[k] = w1[k]
  /\ w2[Len(w2)] = g
\* w2 is w1 without its oldest entry, the rest in order, and g at the end
IsShift(w1, w2, g) ==
  /\ Len(w2) = Len(w1)
  /\ \A k \in 1..(Len(w1) - 1) : w2[k] = w1[k + 1]
  /\ w2[Len(w2)] = g

\* C1: a pass that starts with fewer than W entries in the conv window calls
\* prune_conv_layers and not prune_linear_layers, whatever the linear window.
C1_ConvWarmupPrunesConv ==
  [][(PassStarts /\ Len(conv_scores) < window) => CallsConv]_vars

\* a conv warm-up pass has made its Pruner call
C1_Witness ==
  /\ pc = "eval"
  /\ pruned = "conv"
  /\ iteration < window
  /\ Len(conv_scores) = iteration + 1

\* C2: a pass that starts with W conv entries and fewer than W linear entries
\* calls prune_linear_layers and appends the gain to the linear window without
\* evicting; so passes 1..W prune conv and passes W+1..2W prune linear, and for
\* W=2, batch sizes 1 and budget 6 pass 5 is the first comparison and the loop
\* ends after pass 6.
C2_LinearWarmup ==
  /\ [][(PassStarts /\ Len(conv_scores) = window /\ Len(linear_scores) < window)
          => /\ CallsLinear
             /\ conv_scores' = conv_scores
             /\ IF pc' = "eval"  \* the Pruner call returned
                  THEN IsAppend(linear_scores, linear_scores', accuracy_gain')
                  ELSE linear_scores' = linear_scores]_vars
  /\ [](pc \in {"eval", "recover", "save"} =>
          /\ (iteration < window => pruned = "conv")
          /\ (window <= iteration /\ iteration < 2 * window => pruned = "linear"))
  /\ []((window = 2 /\ prune_conv_num = 1 /\ prune_linear_num = 1 /\ prune_num = 6) =>
          /\ (pc = "loop" /\ iteration < 4 => conv_score = 0 /\ linear_score = 0)
          /\ (pc = "loop" /\ iteration = 4 =>
                Len(conv_scores) = 2 /\ Len(linear_scores) = 2 /\ i = 4)
          /\ (pc = "done" => iteration = 6 /\ i = 6))

\* the scenario W=2, batch sizes 1, budget 6 has run to its end
C2_Witness ==
  /\ pc = "done"
  /\ window = 2 /\ prune_conv_num = 1 /\ prune_linear_num = 1 /\ prune_num = 6
  /\ iteration = 6
  /\ linear_requested >= 2

\* C3: a pass that starts with both windows holding W entries prunes conv iff
\* sum(conv window) > sum(linear window), and linear otherwise, ties included.
C3_AdaptiveChoice ==
  [][(PassStarts /\ Len(conv_scores) = window /\ Len(linear_scores) = window)
       => /\ (sum(conv_scores) > sum(linear_scores) => CallsConv)
          /\ (sum(conv_scores) <= sum(linear_scores) => CallsLinear)]_vars

\* an adaptive pass found equal non-zero sums and pruned linear
C3_Witness ==
  /\ pc = "eval"
  /\ window >= 1
  /\ iteration >= 2 * window
  /\ conv_score = linear_score
  /\ conv_score > 0
  /\ pruned = "linear"

\* C4: each score window holds at most W entries in every reachable state.
C4_WindowBounded ==
  /\ Len(conv_scores) <= window
  /\ Len(linear_scores) <= window

\* both windows are full and each has taken a gain in an adaptive pass
C4_Witness ==
  /\ window >= 1
  /\ Len(conv_scores) = window
  /\ Len(linear_scores) = window
  /\ conv_requested > window * prune_conv_num
  /\ linear_requested > window * prune_linear_num

\* C5: an adaptive pass turns the full window [s1..sW] of the class it prunes
\* into [s2..sW, g]; a warm-up pass appends g and removes nothing.
C5_FifoPush ==
  [][(PassStarts /\ pc' = "eval") =>
       LET warm == Len(conv_scores) < window \/ Len(linear_scores) < window
           g == accuracy_gain'
       IN /\ (pruned' = "conv" =>
                /\ linear_scores' = linear_scores
                /\ IF warm THEN IsAppend(conv_scores, conv_scores', g)
                           ELSE /\ IsShift(conv_scores, conv_scores', g)
                                /\ Len(conv_scores') = window)
          /\ (pruned' = "linear" =>
                /\ conv_scores' = conv_scores
                /\ IF warm THEN IsAppend(linear_scores, linear_scores', g)
                           ELSE /\ IsShift(linear_scores, linear_scores', g)
                                /\ Len(linear_scores') = window)]_vars

\* an adaptive conv pass has shifted the window [1, 0] to [0, 1]
C5_Witness ==
  /\ pc = "eval"
  /\ window = 2
  /\ iteration >= 4
  /\ pruned = "conv"
  /\ conv_score = 1
  /\ conv_scores = <<0, 1>>
  /\ accuracy_gain = 1

\* C6: for a budget >= 0 and positive batch sizes the loop ends after finitely
\* many passes (at most PruneBudget of them), whatever gains the Pruner returns,
\* provided every call returns.
C6_Terminates ==
  /\ <>(pc = "done" \/ pc = "crashed")
  /\ [](iteration <= prune_num)

\* a run has ended after passes of all three phases
C6_Witness ==
  /\ pc = "done"
  /\ window >= 1
  /\ iteration > 2 * window
  /\ prune_num > 0

\* C7: a pass starts exactly when i < prune_num and the loop exits exactly when
\* i >= prune_num; at the exit i exceeds prune_num by at most the batch size of
\* the last pass minus one.
C7_ExitAndOvershoot ==
  /\ [][pc = "loop" =>
          /\ (pc' \in {"eval", "crashed"} <=> i < prune_num)
          /\ (pc' = "done" <=> i >= prune_num)]_vars
  /\ [](pc = "done" =>
          /\ i >= prune_num
          /\ (pruned = "none" => i = prune_num)
          /\ (pruned = "conv" => i - prune_num <= prune_conv_num - 1)
          /\ (pruned = "linear" => i - prune_num <= prune_linear_num - 1))

\* the loop has ended one unit over the budget after a conv pass
C7_Witness ==
  /\ pc = "done"
  /\ pruned = "conv"
  /\ i = prune_num + 1
  /\ prune_conv_num = 2

\* C8: a completed pass advances i by exactly the batch size of the class it
\* pruned and iteration by exactly 1, with or without a checkpoint.
C8_CountersAdvance ==
  /\ [][/\ (pc = "loop" /\ pc' = "eval" =>
              /\ (pruned' = "conv" => i' = i + prune_conv_num)
              /\ (pruned' = "linear" => i' = i + prune_linear_num)
              /\ iteration' = iteration)
        /\ (pc \in {"eval", "recover"} => i' = i /\ iteration' = iteration)
        /\ (pc = "save" => i' = i /\ iteration' = iteration + 1 /\ pc' = "loop")
        /\ i' >= i]_vars
  /\ [](pc \in {"loop", "done"} =>
          /\ i = conv_requested + linear_requested
          /\ conv_requested % prune_conv_num = 0
          /\ linear_requested % prune_linear_num = 0
          /\ iteration = (conv_requested \div prune_conv_num)
                           + (linear_requested \div prune_linear_num))

\* passes of both classes with different batch sizes have completed, some of
\* them without a checkpoint
C8_Witness ==
  /\ pc = "loop"
  /\ prune_conv_num = 1 /\ prune_linear_num = 2
  /\ conv_requested >= 2 /\ linear_requested >= 4
  /\ iteration >= 4
  /\ Len(saved) = 1

\* C9: a pass writes a checkpoint iff its iteration index is a multiple of 30,
\* and the first checkpoint is written at iteration 0, in the first pass.
C9_CheckpointCadence ==
  /\ [][/\ (pc = "save" =>
              IF iteration % 30 = 0
                THEN /\ Len(saved') = Len(saved) + 1
                     /\ saved'[Len(saved')].iteration = iteration
                     /\ \A k \in 1..Len(saved) : saved'[k] = saved[k]
                ELSE saved' = saved)
        /\ (pc # "save" => saved' = saved)]_vars
  /\ [](iteration >= 1 => Len(saved) >= 1 /\ saved[1].iteration = 0)
  /\ [](iteration = 0 => saved = <<>>)

\* the second checkpoint has been written, in the pass of iteration 30
C9_Witness ==
  /\ Len(saved) = 2
  /\ saved[1].iteration = 0
  /\ saved[2].iteration = 30
  /\ iteration = 31

\* C10: the conv units requested for removal never exceed
\* num_of_conv2d_filters - 2*num_of_conv2d_modules and the linear units
\* requested never exceed num_of_linear_filters - 2*num_of_linear_modules.
C10_TwoUnitsLeftPerModule ==
  /\ conv_requested <= num_of_conv2d_filters - 2 * num_of_conv2d_modules
  /\ linear_requested <= num_of_linear_filters - 2 * num_of_linear_modules

\* C11: a failing Pruner, Evaluator or RecoveryTrainer call ends the run there:
\* no step follows it, and the failing step leaves the windows, the counters
\* and the checkpoints written so far as they were.
C11_FailureAborts ==
  /\ [][error = "none"]_vars
  /\ [][error' \in {"Pruner", "Evaluator", "Trainer"} =>
          /\ pc' = "crashed"
          /\ windows' = windows
          /\ i' = i /\ iteration' = iteration
          /\ saved' = saved
          /\ epoch_files' = epoch_files]_vars

\* the recovery training of a later pass failed after a checkpoint was written
C11_Witness ==
  /\ pc = "crashed"
  /\ error = "Trainer"
  /\ args_prune /\ ~args_train
  /\ iteration >= 1
  /\ Len(saved) = 1

\* C12: an evaluation over an empty validation dataset ends with a defined
\* "empty dataset" failure, not with an unhandled division fault.
C12_EmptyDatasetReported ==
  (val_samples = 0 /\ error \in {"ZeroDivisionError", "EmptyDatasetError"})
    => error = "EmptyDatasetError"

\* C13: without --train and --prune the run logs a fatal error and ends: no
\* training epoch, prune operation, evaluation or checkpoint write occurs.
C13_FatalNoWork ==
  /\ [][(~args_train /\ ~args_prune) =>
          /\ pc = "start" /\ pc' = "done"
          /\ fatal_logged'
          /\ UNCHANGED <<epoch, epoch_files, pruner, pruned, windows, saved,
                         val_accuracy, train_result, accuracy_gain, loaded, i,
                         iteration, error>>]_vars
  /\ []((~args_train /\ ~args_prune /\ pc # "start") =>
          fatal_logged /\ pc = "done" /\ error = "none")
  /\ [](fatal_logged => ~args_train /\ ~args_prune)

\* the run without a mode has ended on the fatal log
C13_Witness ==
  /\ ~args_train /\ ~args_prune
  /\ pc = "done"
  /\ fatal_logged
  /\ epoch_files = <<>> /\ saved = <<>>

\* C14 as claimed: iteration is incremented before the checkpoint condition is
\* evaluated, so the test of a pass sees the incremented index.
C14_TestSeesIncremented ==
  [][pc = "save" => ((saved' # saved) <=> (iteration' % 30 = 0))]_vars

\* C14 as amended: the checkpoint condition is evaluated before iteration is
\* incremented, so the test of a pass sees the index of that pass (0 in the
\* first pass) and the increment ends the pass.
C14_TestSeesOldIndex ==
  /\ [][pc = "save" =>
          /\ ((saved' # saved) <=> (iteration % 30 = 0))
          /\ (saved' # saved => saved'[Len(saved')].iteration = iteration' - 1)
          /\ iteration' = iteration + 1
          /\ pc' = "loop"]_vars
  /\ [](\A k \in 1..Len(saved) : saved[k].iteration = 30 * (k - 1))
  /\ [](pc = "loop" => Len(saved) = (iteration + 29) \div 30)

\* the first pass has written its checkpoint on index 0 and then counted
C14_Witness ==
  /\ pc = "loop"
  /\ iteration = 1
  /\ Len(saved) = 1
  /\ saved[1].iteration = 0

\* C15: in a pass only the window of the class pruned takes a value, the gain
\* returned by that pass's Pruner call; the evaluation, the recovery training
\* and the checkpoint step leave the windows, i and the budget unchanged.
C15_OnlyPrunerFeedsWindows ==
  /\ [][(PassStarts /\ pc' = "eval") =>
          /\ (pruned' = "conv" =>
                /\ linear_scores' = linear_scores
                /\ conv_scores'[Len(conv_scores')] = accuracy_gain'
                /\ \/ IsAppend(conv_scores, conv_scores', accuracy_gain')
                   \/ IsShift(conv_scores, conv_scores', accuracy_gain'))
          /\ (pruned' = "linear" =>
                /\ conv_scores' = conv_scores
                /\ linear_scores'[Len(linear_scores')] = accuracy_gain'
                /\ \/ IsAppend(linear_scores, linear_scores', accuracy_gain')
                   \/ IsShift(linear_scores, linear_scores', accuracy_gain'))]_vars
  /\ [][(pc \in {"eval", "recover", "save"}) =>
          /\ windows' = windows
          /\ accuracy_gain' = accuracy_gain
          /\ i' = i
          /\ prune_num' = prune_num]_vars

\* a pass is complete: its evaluation and its recovery returned accuracies
\* that are in neither window
C15_Witness ==
  /\ pc = "loop"
  /\ iteration >= 3
  /\ val_accuracy = 7
  /\ conv_scores # <<>> /\ linear_scores # <<>>
  /\ \A k \in 1..Len(conv_scores) : conv_scores[k] # val_accuracy
  /\ \A k \in 1..Len(linear_scores) : linear_scores[k] # val_accuracy

\* C16: in prune mode the recovery training writes no per-epoch checkpoint and
\* the only files written are the periodic pruning checkpoints; in train mode
\* one checkpoint is written per epoch.
C16_RecoveryWritesNothing ==
  /\ []((~args_train /\ args_prune) => epoch_files = <<>>)
  /\ [][(~args_train /\ args_prune) =>
          /\ epoch_files' = epoch_files
          /\ (saved' # saved => pc = "save")]_vars
  /\ [](args_train =>
          /\ saved = <<>>
          /\ Len(epoch_files) = epoch
          /\ \A k \in 1..Len(epoch_files) : epoch_files[k].epoch = k - 1)
  /\ []((args_train /\ pc = "done") => Len(epoch_files) = num_epochs)

\* a recovery training of two epochs has returned in the second pass of a
\* pruning run
C16_Witness ==
  /\ ~args_train /\ args_prune
  /\ pc = "save"
  /\ iteration = 1
  /\ num_recovery_epochs = 2
  /\ epoch_files = <<>>
  /\ Len(saved) = 1

\* C17: a pruning checkpoint is named with i as advanced by the pass that
\* writes it, the run's prune_num, and the accuracy returned by that pass's
\* recovery training, printed with four decimals.
C17_CheckpointLabel ==
  /\ [][(pc = "save" /\ saved' # saved) =>
          LET c == saved'[Len(saved')]
          IN /\ c.txt = i
             /\ c.pth = <<i, prune_num, Fmt4(train_result)>>
             /\ i = conv_requested + linear_requested
             /\ prune_num = PruneNum(num_of_conv2d_filters, num_of_linear_filters,
                                     num_of_conv2d_modules, num_of_linear_modules)]_vars
  /\ [][(pc = "recover" /\ pc' = "save") => train_result' \in Accs]_vars
  /\ [][pc # "recover" /\ args_prune /\ ~args_train
          => train_result' = train_result]_vars

\* the checkpoints of the passes 1 and 31 carry different accuracies
C17_Witness ==
  /\ Len(saved) = 2
  /\ saved[1].pth[3] = 1
  /\ saved[2].pth[3] = 0
  /\ saved[2].pth[1] > saved[1].pth[1]
  /\ saved[2].pth[2] = prune_num

\* C18: with W >= 1 the phases follow each other and none is entered again:
\* the linear window is empty while the conv window is short of W, no window
\* ever gets shorter, once both hold W entries every later pass is adaptive
\* with both still at W, and no eviction meets an empty window.
C18_PhasesInOrder ==
  /\ []((window >= 1 /\ Len(conv_scores) < window) => linear_scores = <<>>)
  /\ [][window >= 1 =>
          /\ Len(conv_scores') >= Len(conv_scores)
          /\ Len(linear_scores') >= Len(linear_scores)]_vars
  /\ [][(window >= 1 /\ Len(conv_scores) = window /\ Len(linear_scores) = window) =>
          /\ Len(conv_scores') = window
          /\ Len(linear_scores') = window
          /\ (PassStarts => /\ conv_score' = sum(conv_scores)
                            /\ linear_score' = sum(linear_scores)
                            /\ Len(conv_scores) > 0 /\ Len(linear_scores) > 0)]_vars
  /\ [][(PassStarts /\ (Len(conv_scores) < window \/ Len(linear_scores) < window))
          => UNCHANGED scores]_vars
  /\ [](window >= 1 => error # "IndexError")

\* the third adaptive pass of a run with W = 2 has pushed its gain
C18_Witness ==
  /\ window = 2
  /\ pc = "eval"
  /\ iteration = 6
  /\ Len(conv_scores) = 2 /\ Len(linear_scores) = 2

\* C19: when the loop has ended after at least one pass a checkpoint exists and
\* the latest one was written at most 29 passes before the final pass; the
\* checkpoints of a run carry strictly increasing i, so their files differ.
C19_CheckpointRecent ==
  /\ []((pc = "done" /\ iteration >= 1) =>
          /\ Len(saved) >= 1
          /\ (iteration - 1) - saved[Len(saved)].iteration <= 29)
  /\ [](\A j, k \in 1..Len(saved) :
          j < k => /\ saved[j].txt < saved[k].txt
                   /\ saved[j].pth[1] < saved[k].pth[1]
                   /\ saved[j].pth # saved[k].pth)

\* a run of 30 passes has ended: its only checkpoint is 29 passes old
C19_Witness ==
  /\ pc = "done"
  /\ iteration = 30
  /\ Len(saved) = 1
  /\ saved[1].iteration = 0

\* C20: with both --train and --prune only the training runs: the trained
\* model is not loaded and no prune operation, window update or pruning
\* checkpoint occurs.
C20_TrainHasPriority ==
  /\ []((args_train /\ args_prune) =>
          /\ ~loaded
          /\ conv_requested = 0 /\ linear_requested = 0 /\ pruned = "none"
          /\ conv_scores = <<>> /\ linear_scores = <<>>
          /\ saved = <<>>
          /\ ~fatal_logged
          /\ pc \in {"start", "train", "done", "crashed"})
  /\ []((args_train /\ args_prune /\ pc = "done") =>
          epoch = num_epochs /\ Len(epoch_files) = num_epochs)
  /\ [][(args_train /\ args_prune /\ pc = "start") => pc' = "train"]_vars

\* a launch with both flags has trained two epochs and ended
C20_Witness ==
  /\ args_train /\ args_prune
  /\ pc = "done"
  /\ Len(epoch_files) = 2
  /\ ~loaded
====
